---- MODULE Spec2Model ----
(***************************************************************************)
(* Model of compute_sales.py: load_json_file, calculate_total_cost, main.  *)
(*                                                                         *)
(* JSON / Python values are records [t, s, n]: t is the Python type name,  *)
(* s the text of a str, n the value of a number (or the length of a list). *)
(* Numbers are exact integers; a float amount is represented by an integer *)
(* amount, so floating-point rounding is outside the model.                *)
(***************************************************************************)
EXTENDS Integers, Sequences, FiniteSets, TLC

VARIABLES
    price_catalogue,  \* argument / local of main (line 77): a document
    sales_data,       \* argument / local of main (line 78): a document
    price_dict,       \* local of calculate_total_cost (line 40)
    total_cost,       \* local of calculate_total_cost (line 38)
    errors,           \* local of calculate_total_cost (line 39)
    idx,              \* number of sale records the for loop has consumed
    pc,               \* position of the program
    exc,              \* exception that left calculate_total_cost, or "none"
    calls,            \* how many times calculate_total_cost was entered
    first_outcome,    \* outcome of the first call, kept by a caller calling twice
    fs,               \* the files main is pointed at
    stderr,           \* lines printed to sys.stderr
    stdout,           \* lines printed to the console
    result_file,      \* lines of SalesResults.txt (<<>> while not written)
    exit_status       \* process exit status, NotExited while running

vars == <<price_catalogue, sales_data, price_dict, total_cost, errors, idx, pc,
          exc, calls, first_outcome, fs, stderr, stdout, result_file, exit_status>>

----------------------------------------------------------------------------
(* Bounds *)

MaxCat == 2
MaxSales == 2

----------------------------------------------------------------------------
(* Python values *)

Absent  == [t |-> "absent",   s |-> "", n |-> 0]   \* key not in the dict
None    == [t |-> "NoneType", s |-> "", n |-> 0]
IntV(n)  == [t |-> "int",      s |-> "", n |-> n]
StrV(s)  == [t |-> "str",      s |-> s,  n |-> 0]
BoolV(b) == [t |-> "bool",     s |-> "", n |-> IF b THEN 1 ELSE 0]
ListV(n) == [t |-> "list",    s |-> "x", n |-> n]  \* the list ["x"] * n
TypeErrorV == [t |-> "TypeError", s |-> "", n |-> 0]

\* bool(v): the truth value test of `if not product`
TruthyNotNone(v) == v.t # "NoneType"
Truthy(v) ==
    CASE v.t = "NoneType" -> FALSE
      [] v.t \in {"int", "bool"} -> v.n # 0
      [] v.t = "str" -> v.s # ""
      [] v.t = "list" -> v.n # 0
      [] OTHER -> TRUE

\* hash(v) succeeds
Hashable(v) == v.t # "list"

\* int, float and bool take part in arithmetic (bool is a subclass of int)
IsNumber(v) == v.t \in {"int", "bool"}
IsSequence(v) == v.t \in {"str", "list"}

\* v == w
PyEq(v, w) ==
    IF IsNumber(v) /\ IsNumber(w) THEN v.n = w.n
    ELSE v.t = w.t /\ v.s = w.s /\ v.n = w.n

RECURSIVE Repeat(_, _)
Repeat(s, n) == IF n <= 0 THEN "" ELSE s \o Repeat(s, n - 1)

\* sequence * count
SeqTimes(v, c) ==
    IF v.t = "str" THEN StrV(Repeat(v.s, c.n))
    ELSE ListV(IF c.n <= 0 THEN 0 ELSE v.n * c.n)

\* price * quantity (line 56); TypeErrorV when Python raises TypeError
PyMulUnchecked(a, b) == IntV(a.n * b.n)
PyMul(a, b) ==
    IF IsNumber(a) /\ IsNumber(b) THEN IntV(a.n * b.n)
    ELSE IF IsSequence(a) /\ IsNumber(b) THEN SeqTimes(a, b)
    ELSE IF IsNumber(a) /\ IsSequence(b) THEN SeqTimes(b, a)
    ELSE TypeErrorV

\* total_cost + v (line 56, total_cost is a number); TypeErrorV when it raises
PyAssign(total, v) ==
    IF IsNumber(v) THEN IntV(v.n) ELSE TypeErrorV
PyAdd(total, v) ==
    IF v.t = "TypeError" THEN TypeErrorV
    ELSE IF IsNumber(v) THEN IntV(total + v.n)
    ELSE TypeErrorV

Digit(d) == CASE d = 0 -> "0" [] d = 1 -> "1" [] d = 2 -> "2" [] d = 3 -> "3"
              [] d = 4 -> "4" [] d = 5 -> "5" [] d = 6 -> "6" [] d = 7 -> "7"
              [] d = 8 -> "8" [] OTHER -> "9"

RECURSIVE NatStr(_)
NatStr(n) == IF n < 10 THEN Digit(n) ELSE NatStr(n \div 10) \o Digit(n % 10)

IntStr(n) == IF n < 0 THEN "-" \o NatStr(-n) ELSE NatStr(n)

RECURSIVE ListStr(_)
ListStr(n) == IF n = 0 THEN "" ELSE IF n = 1 THEN "'x'" ELSE "'x', " \o ListStr(n - 1)

\* str(v), as an f-string formats {product}
PyStr(v) ==
    CASE v.t = "str" -> v.s
      [] v.t = "NoneType" -> "None"
      [] v.t = "int" -> IntStr(v.n)
      [] v.t = "bool" -> (IF v.n = 1 THEN "True" ELSE "False")
      [] v.t = "list" -> "[" \o ListStr(v.n) \o "]"
      [] OTHER -> ""

\* dict.get(key): None when the key is absent (lines 42-43)
DictGet(v) == IF v.t = "absent" THEN None ELSE v

----------------------------------------------------------------------------
(* Documents and files *)

ArrayDoc(items) == [kind |-> "array", items |-> items]
\* JSON null, which json.load gives back as None: the value load_json_file also
\* returns after a failure. Line 79 tests 0, false, "" and {} the same way.
NullDoc   == [kind |-> "null",   items |-> <<>>]
NumberDoc == [kind |-> "number", items |-> <<>>]   \* a non-zero JSON number

\* bool(document), as tested on line 79
DocTruthyNotNone(d) == d.kind # "null"
DocTruthy(d) ==
    \/ d.kind = "array" /\ Len(d.items) > 0
    \/ d.kind = "number"

Iterable(d) == d.kind = "array"

SeqsUpTo(S, n) == UNION {[1..k -> S] : k \in 0..n}

Entry(title, price) == [title |-> title, price |-> price]
Sale(product, quantity) == [Product |-> product, Quantity |-> quantity]

CatalogueEntries ==
    { Entry(StrV("A"), IntV(1)), Entry(StrV("A"), IntV(3)), Entry(StrV("A"), StrV("x")),
      Entry(StrV("A"), Absent), Entry(StrV("B"), IntV(2)), Entry(StrV(""), IntV(3)) }

SaleRecords ==
    { Sale(Absent, Absent), Sale(StrV(""), IntV(2)), Sale(StrV(""), StrV("two")),
      Sale(StrV("A"), IntV(2)), Sale(StrV("A"), StrV("two")), Sale(StrV("A"), Absent),
      Sale(StrV("A"), BoolV(TRUE)), Sale(StrV("B"), IntV(2)), Sale(ListV(1), IntV(2)) }

CatalogueFile == "catalogue.json"
SalesFile == "sales.json"

Missing      == [st |-> "missing", doc |-> NullDoc]
InvalidJSON  == [st |-> "invalid", doc |-> NullDoc]
Holding(doc) == [st |-> "ok", doc |-> doc]

FileStates(records, n) ==
    {Missing, InvalidJSON, Holding(NullDoc), Holding(NumberDoc)}
        \cup {Holding(ArrayDoc(s)) : s \in SeqsUpTo(records, n)}

NoFiles == [f \in {CatalogueFile, SalesFile} |-> Missing]

NotFoundMsg(filename) == "Error: The file '" \o filename \o "' was not found."
InvalidJSONMsg(filename) == "Error: The file '" \o filename \o "' contains invalid JSON."

\* load_json_file: the value returned and the lines printed to stderr
LoadSilently(filename) ==
    [ret |-> fs[filename].doc, diag |-> <<>>]
load_json_file(filename) ==
    CASE fs[filename].st = "missing" ->
            [ret |-> NullDoc, diag |-> <<NotFoundMsg(filename)>>]
      [] fs[filename].st = "invalid" ->
            [ret |-> NullDoc, diag |-> <<InvalidJSONMsg(filename)>>]
      [] OTHER ->
            [ret |-> fs[filename].doc, diag |-> <<>>]

----------------------------------------------------------------------------
(* calculate_total_cost *)

EmptyDict == [k \in {} |-> None]

\* key in d
PyIn(key, d) == \E q \in DOMAIN d : PyEq(q, key)

\* d[key], for a key that is in d
PyLookup(d, key) == d[CHOOSE q \in DOMAIN d : PyEq(q, key)]

\* d[key] = value
DictSetDefault(d, key, value) ==
    IF PyIn(key, d) THEN d
    ELSE [q \in DOMAIN d \cup {key} |-> IF q = key THEN value ELSE d[q]]
DictSet(d, key, value) ==
    IF PyIn(key, d)
    THEN [q \in DOMAIN d |-> IF PyEq(q, key) THEN value ELSE d[q]]
    ELSE [q \in DOMAIN d \cup {key} |-> IF q = key THEN value ELSE d[q]]

\* the dict comprehension of line 40, item by item
RECURSIVE BuildPriceDict(_, _)
BuildPriceDict(items, d) ==
    IF items = <<>> THEN [exc |-> "none", d |-> d]
    ELSE LET item == Head(items) IN
         IF item.title.t = "absent" \/ item.price.t = "absent"
         THEN [exc |-> "KeyError", d |-> d]
         ELSE IF ~Hashable(item.title)
         THEN [exc |-> "TypeError", d |-> d]
         ELSE BuildPriceDict(Tail(items), DictSet(d, item.title, item.price))

MissingProductMsg == "Warning: Sale record with a missing product name."
UnlistedMsg(product) ==
    "Warning: '" \o PyStr(product) \o "' is not listed in the price catalogue."
InvalidPriceMsg(product) ==
    "Error: Invalid price format for '" \o PyStr(product) \o "'."

\* errors = [] (line 39)
SharedErrorList == errors
NewErrorList == <<>>

\* errors.append(msg)
PyPrepend(list, msg) == <<msg>> \o list
PyAppend(list, msg) == Append(list, msg)

mainVars == <<fs, stderr, stdout, result_file, exit_status>>

\* lines 38-41: the locals, the price mapping and the iterator of the loop
CalcEnter ==
    /\ pc = "calc_entry"
    /\ calls' = calls + 1
    /\ total_cost' = 0
    /\ errors' = NewErrorList
    /\ idx' = 0
    /\ IF ~Iterable(price_catalogue)
       THEN /\ price_dict' = EmptyDict
            /\ exc' = "TypeError"
            /\ pc' = "calc_raised"
       ELSE LET b == BuildPriceDict(price_catalogue.items, EmptyDict) IN
            IF b.exc # "none"
            THEN /\ price_dict' = EmptyDict
                 /\ exc' = b.exc
                 /\ pc' = "calc_raised"
            ELSE /\ price_dict' = b.d
                 /\ IF Iterable(sales_data)
                    THEN exc' = "none" /\ pc' = "calc_loop"
                    ELSE exc' = "TypeError" /\ pc' = "calc_raised"
    /\ UNCHANGED <<price_catalogue, sales_data, first_outcome>>
    /\ UNCHANGED mainVars

\* lines 41-58: one iteration of the for loop
CalcIter ==
    /\ pc = "calc_loop"
    /\ idx < Len(sales_data.items)
    /\ LET sale == sales_data.items[idx + 1]
           product == DictGet(sale.Product)
           quantity == DictGet(sale.Quantity)
       IN  IF ~Truthy(product)
           THEN /\ errors' = PyAppend(errors, MissingProductMsg)
                /\ idx' = idx + 1
                /\ UNCHANGED <<total_cost, pc, exc>>
           ELSE IF ~Hashable(product)
           THEN /\ exc' = "TypeError"
                /\ pc' = "calc_raised"
                /\ UNCHANGED <<total_cost, errors, idx>>
           ELSE IF ~PyIn(product, price_dict)
           THEN /\ errors' = PyAppend(errors, UnlistedMsg(product))
                /\ idx' = idx + 1
                /\ UNCHANGED <<total_cost, pc, exc>>
           ELSE LET price == PyLookup(price_dict, product)
                    sum == PyAdd(total_cost, PyMul(price, quantity))
                IN  IF sum.t = "TypeError"
                    THEN /\ errors' = PyAppend(errors, InvalidPriceMsg(product))
                         /\ idx' = idx + 1
                         /\ UNCHANGED <<total_cost, pc, exc>>
                    ELSE /\ total_cost' = sum.n
                         /\ idx' = idx + 1
                         /\ UNCHANGED <<errors, pc, exc>>
    /\ UNCHANGED <<price_catalogue, sales_data, price_dict, calls, first_outcome>>
    /\ UNCHANGED mainVars

\* line 59: the loop is exhausted, return total_cost, errors
CalcReturn ==
    /\ pc = "calc_loop"
    /\ idx = Len(sales_data.items)
    /\ pc' = "calc_returned"
    /\ UNCHANGED <<price_catalogue, sales_data, price_dict, total_cost, errors,
                   idx, exc, calls, first_outcome>>
    /\ UNCHANGED mainVars

\* what a caller sees of a finished call
Outcome ==
    IF pc = "calc_returned"
    THEN [kind |-> "returned", total |-> total_cost, errors |-> errors]
    ELSE [kind |-> exc, total |-> 0, errors |-> <<>>]

NoOutcome == [kind |-> "pending", total |-> 0, errors |-> <<>>]

\* a caller calls calculate_total_cost a second time with the same arguments
CallAgain ==
    /\ pc \in {"calc_returned", "calc_raised"}
    /\ calls = 1
    /\ first_outcome' = Outcome
    /\ pc' = "calc_entry"
    /\ UNCHANGED <<price_catalogue, sales_data, price_dict, total_cost, errors,
                   idx, exc, calls>>
    /\ UNCHANGED mainVars

----------------------------------------------------------------------------
(* Calling calculate_total_cost directly *)

NotExited == -1

Init ==
    /\ price_catalogue \in {ArrayDoc(s) : s \in SeqsUpTo(CatalogueEntries, MaxCat)}
    /\ sales_data \in {ArrayDoc(s) : s \in SeqsUpTo(SaleRecords, MaxSales)}
    /\ price_dict = EmptyDict
    /\ total_cost = 0
    /\ errors = <<>>
    /\ idx = 0
    /\ pc = "calc_entry"
    /\ exc = "none"
    /\ calls = 0
    /\ first_outcome = NoOutcome
    /\ fs = NoFiles
    /\ stderr = <<>>
    /\ stdout = <<>>
    /\ result_file = <<>>
    /\ exit_status = NotExited

Next == CalcEnter \/ CalcIter \/ CalcReturn

Spec == Init /\ [][Next]_vars

NextTwice == CalcEnter \/ CalcIter \/ CalcReturn \/ CallAgain

SpecTwice == Init /\ [][NextTwice]_vars

----------------------------------------------------------------------------
(* main *)

calcVars == <<price_dict, total_cost, errors, idx, exc, calls, first_outcome>>

\* f"{total_cost:.2f}" of an integral total
Fixed2(n) == IntStr(n) \o ".00"

\* the lines written to SalesResults.txt and mirrored to the console
\* (lines 84-95); the digits of the elapsed time are left out
ReportLines ==
    <<"Total Sales: $" \o Fixed2(total_cost), "Execution Time: seconds">>
        \o (IF errors # <<>> THEN <<"", "Warnings and Errors:">> \o errors ELSE <<>>)

\* line 77
MainLoadCatalogue ==
    /\ pc = "main_load_catalogue"
    /\ LET r == load_json_file(CatalogueFile) IN
          /\ price_catalogue' = r.ret
          /\ stderr' = stderr \o r.diag
    /\ pc' = "main_load_sales"
    /\ UNCHANGED <<sales_data, fs, stdout, result_file, exit_status>>
    /\ UNCHANGED calcVars

\* line 78
MainLoadSales ==
    /\ pc = "main_load_sales"
    /\ LET r == load_json_file(SalesFile) IN
          /\ sales_data' = r.ret
          /\ stderr' = stderr \o r.diag
    /\ pc' = "main_check"
    /\ UNCHANGED <<price_catalogue, fs, stdout, result_file, exit_status>>
    /\ UNCHANGED calcVars

\* lines 79-81: sys.exit(1), or the call of calculate_total_cost
MainCheck ==
    /\ pc = "main_check"
    /\ IF ~DocTruthy(price_catalogue) \/ ~DocTruthy(sales_data)
       THEN exit_status' = 1 /\ pc' = "exited"
       ELSE exit_status' = exit_status /\ pc' = "calc_entry"
    /\ UNCHANGED <<price_catalogue, sales_data, fs, stderr, stdout, result_file>>
    /\ UNCHANGED calcVars

\* lines 82-95: the call returned; write the report and print it
MainReport ==
    /\ pc = "calc_returned"
    /\ result_file' = ReportLines
    /\ stdout' = stdout \o ReportLines
    /\ exit_status' = 0
    /\ pc' = "exited"
    /\ UNCHANGED <<price_catalogue, sales_data, fs, stderr>>
    /\ UNCHANGED calcVars

\* the call raised: nothing in main catches it, the interpreter prints the
\* traceback and exits with status 1
MainUncaught ==
    /\ pc = "calc_raised"
    /\ stderr' = Append(stderr, "Traceback (most recent call last): " \o exc)
    /\ exit_status' = 1
    /\ pc' = "exited"
    /\ UNCHANGED <<price_catalogue, sales_data, fs, stdout, result_file>>
    /\ UNCHANGED calcVars

InitMain ==
    /\ fs \in {[f \in {CatalogueFile, SalesFile} |-> IF f = CatalogueFile THEN c ELSE s] :
                  c \in FileStates(CatalogueEntries, MaxCat),
                  s \in FileStates(SaleRecords, MaxSales)}
    /\ price_catalogue = NullDoc
    /\ sales_data = NullDoc
    /\ price_dict = EmptyDict
    /\ total_cost = 0
    /\ errors = <<>>
    /\ idx = 0
    /\ pc = "main_load_catalogue"
    /\ exc = "none"
    /\ calls = 0
    /\ first_outcome = NoOutcome
    /\ stderr = <<>>
    /\ stdout = <<>>
    /\ result_file = <<>>
    /\ exit_status = NotExited

NextMain ==
    \/ MainLoadCatalogue
    \/ MainLoadSales
    \/ MainCheck
    \/ CalcEnter
    \/ CalcIter
    \/ CalcReturn
    \/ MainReport
    \/ MainUncaught

SpecMain == InitMain /\ [][NextMain]_vars

----------------------------------------------------------------------------
(* Reference definitions: what the specification says of the inputs, stated *)
(* on the catalogue and the sale records themselves.                        *)

Catalogue == price_catalogue.items
Sales == sales_data.items
Seen == SubSeq(Sales, 1, idx)          \* the records the loop has consumed
InLoop == pc \in {"calc_loop", "calc_returned"}
Current == Sales[idx + 1]              \* the record the next iteration takes

FalsyValues == {Absent, None, StrV(""), IntV(0), BoolV(FALSE), ListV(0)}
RefFalsy(v) == v \in FalsyValues
RefNumeric(v) == v.t = "int" \/ v.t = "bool"
RefListed(p) == \E i \in DOMAIN Catalogue : Catalogue[i].title = p
LastEntry(p) ==
    Catalogue[CHOOSE i \in DOMAIN Catalogue :
                /\ Catalogue[i].title = p
                /\ \A j \in DOMAIN Catalogue : Catalogue[j].title = p => j <= i]
LastPrice(p) == LastEntry(p).price

\* the record is one the total counts; nonFalsy adds "its Product is not falsy"
RefCounted(r, nonFalsy) ==
    /\ RefListed(r.Product)
    /\ RefNumeric(LastPrice(r.Product))
    /\ RefNumeric(r.Quantity)
    /\ nonFalsy => ~RefFalsy(r.Product)

RefAmount(r) == LastPrice(r.Product).n * r.Quantity.n

RECURSIVE RefTotal(_, _)
RefTotal(recs, nonFalsy) ==
    IF recs = <<>> THEN 0
    ELSE RefTotal(SubSeq(recs, 1, Len(recs) - 1), nonFalsy)
           + (IF RefCounted(recs[Len(recs)], nonFalsy)
              THEN RefAmount(recs[Len(recs)]) ELSE 0)

RefMissingText == "Warning: Sale record with a missing product name."
RefUnlistedText(p) == "Warning: '" \o p.s \o "' is not listed in the price catalogue."
RefInvalidText(p) == "Error: Invalid price format for '" \o p.s \o "'."

\* the entries a record causes: none for a valid one, one for an anomalous one
RefEntries(r) ==
    IF RefFalsy(r.Product) THEN <<RefMissingText>>
    ELSE IF ~RefListed(r.Product) THEN <<RefUnlistedText(r.Product)>>
    ELSE IF ~RefCounted(r, TRUE) THEN <<RefInvalidText(r.Product)>>
    ELSE <<>>

RECURSIVE RefWarnings(_)
RefWarnings(recs) ==
    IF recs = <<>> THEN <<>>
    ELSE RefWarnings(SubSeq(recs, 1, Len(recs) - 1)) \o RefEntries(recs[Len(recs)])

AboutToTake == pc = "calc_loop" /\ idx < Len(Sales)

\* the iteration left the total alone, added exactly this entry and went on
SkippedWith(text) ==
    /\ errors' = Append(errors, text)
    /\ total_cost' = total_cost
    /\ idx' = idx + 1
    /\ pc' = "calc_loop"

----------------------------------------------------------------------------
(* Claims *)

\* C1: calculate_total_cost never raises, whatever the presence or type of
\* the Product, Quantity and price values. (Refuted: it raises KeyError on a
\* catalogue entry without a price and TypeError on an unhashable Product.)
C1_NeverRaises == pc # "calc_raised"

\* C2 as stated: the returned total is the sum of price * Quantity over the
\* records whose Product is a key of the catalogue and whose price and
\* Quantity are numeric.
C2_TotalOverListedNumeric ==
    pc = "calc_returned" => total_cost = RefTotal(Sales, FALSE)

\* C2 amended: after any prefix of the sales, and at the return, the total is
\* the sum of price * Quantity over the records whose Product is not falsy,
\* is a key of the catalogue and whose price and Quantity are numeric; when
\* no record is anomalous it is the sum over all of them and there is no
\* warning.
C2_TotalOverNonFalsyListedNumeric ==
    /\ InLoop => total_cost = RefTotal(Seen, TRUE)
    /\ (pc = "calc_returned" /\ \A i \in DOMAIN Sales : RefCounted(Sales[i], TRUE))
          => /\ total_cost = RefTotal(Sales, FALSE)
             /\ errors = <<>>

C2_Witness ==
    /\ pc = "calc_returned"
    /\ total_cost > 0
    /\ \E i \in DOMAIN Sales : RefFalsy(Sales[i].Product) /\ RefCounted(Sales[i], FALSE)

\* C3: a record whose Product is absent, empty or otherwise falsy adds
\* exactly one "missing product name" warning, leaves the total unchanged
\* and is skipped, whatever its Quantity.
C3_FalsyProductSkipped ==
    [][(AboutToTake /\ RefFalsy(Current.Product)) => SkippedWith(RefMissingText)]_vars

C3_Witness ==
    /\ pc = "calc_loop"
    /\ idx = 2
    /\ Sales[1].Product = Absent /\ Sales[1].Quantity = Absent
    /\ Sales[2].Product = StrV("") /\ Sales[2].Quantity = StrV("two")
    /\ errors = <<RefMissingText, RefMissingText>>

\* C4: a record whose non-falsy Product is not a key of the price mapping
\* adds exactly one warning naming the product, leaves the total unchanged
\* and is skipped. (Refuted for an unhashable Product, which raises.)
C4_UnlistedProductSkipped ==
    [][(AboutToTake /\ ~RefFalsy(Current.Product)
          /\ Current.Product \notin DOMAIN price_dict)
        => SkippedWith(RefUnlistedText(Current.Product))]_vars

\* C5 as stated: a record whose Product is in the catalogue and whose
\* Quantity or price is not numeric adds exactly one "Invalid price format"
\* entry and nothing to the total, and the loop goes on.
C5_NonNumericSkipped ==
    [][(AboutToTake /\ RefListed(Current.Product) /\ ~RefCounted(Current, FALSE))
        => SkippedWith(RefInvalidText(Current.Product))]_vars

\* C5 amended: the same for a record whose Product is not falsy; and a valid
\* record before or after it is added to the total.
C5_NonFalsyNonNumericSkipped ==
    [][/\ (AboutToTake /\ ~RefFalsy(Current.Product) /\ RefListed(Current.Product)
             /\ ~RefCounted(Current, TRUE))
          => SkippedWith(RefInvalidText(Current.Product))
       /\ (AboutToTake /\ RefCounted(Current, TRUE))
          => /\ total_cost' = total_cost + RefAmount(Current)
             /\ errors' = errors
             /\ idx' = idx + 1
             /\ pc' = "calc_loop"]_vars

C5_Witness ==
    /\ pc = "calc_returned"
    /\ total_cost > 0
    /\ \E i \in DOMAIN Sales :
          /\ Sales[i].Product = StrV("A")
          /\ ~RefNumeric(Sales[i].Quantity)
    /\ errors = <<RefInvalidText(StrV("A"))>>

\* C8: the warnings hold exactly one entry per anomalous record and nothing
\* else, in the order of the records; after any prefix of the sales the list
\* is the list of that prefix.
C8_WarningsInRecordOrder == InLoop => errors = RefWarnings(Seen)

C8_Witness ==
    /\ pc = "calc_returned"
    /\ Len(errors) = 2
    /\ errors[1] # errors[2]

\* C9: with several catalogue entries of one title the price mapping holds
\* the price of the last of them, so that price is the one every sale of the
\* title is charged.
C9_LastWriteWins ==
    InLoop => /\ DOMAIN price_dict = {Catalogue[i].title : i \in DOMAIN Catalogue}
              /\ \A p \in DOMAIN price_dict : price_dict[p] = LastPrice(p)
              /\ total_cost = RefTotal(Seen, TRUE)

C9_Witness ==
    /\ pc = "calc_returned"
    /\ Len(Catalogue) = 2
    /\ Catalogue[1].title = Catalogue[2].title
    /\ Catalogue[1].price = IntV(1) /\ Catalogue[2].price = IntV(3)
    /\ total_cost = 6

\* C7: calculate_total_cost leaves its arguments as they were, and a second
\* call with the same arguments ends as the first did (same total and
\* warnings, or the same exception).
C7_PureAndRepeatable ==
    /\ [](calls = 2 /\ pc \in {"calc_returned", "calc_raised"}
            => Outcome = first_outcome)
    /\ [][price_catalogue' = price_catalogue /\ sales_data' = sales_data]_vars

C7_Witness ==
    /\ calls = 2
    /\ pc = "calc_returned"
    /\ total_cost > 0
    /\ Len(errors) > 0
    /\ first_outcome = Outcome

\* C6: when a document is not found or is not valid JSON, a diagnostic
\* distinct for the kind is printed, the loader returns None and no partial
\* data, calculate_total_cost is not invoked, no result is written and the
\* run exits with a non-zero status.
LoadFailed(f) == fs[f].st \in {"missing", "invalid"}
RefDiagnostic(f) ==
    IF fs[f].st = "missing" THEN "Error: The file '" \o f \o "' was not found."
    ELSE "Error: The file '" \o f \o "' contains invalid JSON."
Printed(line) == \E i \in DOMAIN stderr : stderr[i] = line
CatalogueLoaded == pc # "main_load_catalogue"
SalesLoaded == pc \notin {"main_load_catalogue", "main_load_sales"}

C6_LoadFailureHalts ==
    /\ (CatalogueLoaded /\ LoadFailed(CatalogueFile))
          => Printed(RefDiagnostic(CatalogueFile)) /\ price_catalogue = NullDoc
    /\ (SalesLoaded /\ LoadFailed(SalesFile))
          => Printed(RefDiagnostic(SalesFile)) /\ sales_data = NullDoc
    /\ \A f \in {CatalogueFile, SalesFile} :
          ~Printed("Error: The file '" \o f \o "' was not found.")
             \/ ~Printed("Error: The file '" \o f \o "' contains invalid JSON.")
    /\ (LoadFailed(CatalogueFile) \/ LoadFailed(SalesFile))
          => /\ calls = 0
             /\ result_file = <<>>
             /\ stdout = <<>>
             /\ pc \notin {"calc_entry", "calc_loop", "calc_returned", "calc_raised"}
             /\ pc = "exited" => exit_status = 1

C6_Witness ==
    /\ pc = "exited"
    /\ fs[CatalogueFile].st = "missing"
    /\ fs[SalesFile].st = "invalid"
    /\ Len(stderr) = 2
    /\ exit_status = 1

\* C10: a document that parsed but is empty (an empty array or another falsy
\* value) ends the run with status 1, with no diagnostic for it, without a
\* call of calculate_total_cost and without a result; so main only calls
\* calculate_total_cost with a catalogue and sales that are not empty.
ParsedEmpty(f) ==
    /\ fs[f].st = "ok"
    /\ fs[f].doc = NullDoc \/ fs[f].doc = ArrayDoc(<<>>)

C10_EmptyDocumentExits ==
    /\ (ParsedEmpty(CatalogueFile) \/ ParsedEmpty(SalesFile))
          => /\ calls = 0
             /\ result_file = <<>>
             /\ stdout = <<>>
             /\ \A i \in DOMAIN stderr :
                   \E f \in {CatalogueFile, SalesFile} :
                      LoadFailed(f) /\ stderr[i] = RefDiagnostic(f)
             /\ pc = "exited" => exit_status = 1
    /\ calls > 0
          => /\ price_catalogue \notin {NullDoc, ArrayDoc(<<>>)}
             /\ sales_data \notin {NullDoc, ArrayDoc(<<>>)}

C10_Witness ==
    /\ pc = "exited"
    /\ fs[CatalogueFile] = Holding(ArrayDoc(<<>>))
    /\ fs[SalesFile].st = "ok" /\ Len(fs[SalesFile].doc.items) > 0
    /\ stderr = <<>>
    /\ exit_status = 1

====
